---- MODULE Spec2Model ----
(***************************************************************************)
(* Habit tracker (main.js): the persisted document, the home page's        *)
(* handlers that mutate it, and the date and counting helpers of the       *)
(* stats page.                                                             *)
(*                                                                         *)
(* Time.  A Date is its time value, here in whole hours since              *)
(* 1970-01-01T00:00Z.  The browser's time zone is the variable off, the    *)
(* hours local time is ahead of UTC, fixed for a run (no DST change).      *)
(* Date strings are real "YYYY-MM-DD" strings, taken from a table that     *)
(* covers the days the model can reach.                                    *)
(*                                                                         *)
(* Values.  A JavaScript value is a tagged record [t, v]; an object is     *)
(* the sequence of its <<key, value>> properties in the engine's own       *)
(* order; the text in localStorage is a sequence of JSON tokens.           *)
(***************************************************************************)
EXTENDS Integers, Sequences, FiniteSets, TLC

\* ---------------------------------------------------------------- bounds

\* At most this many habits are added to a document.
MaxHabits == 2

\* At most this many mutating handler calls (add, toggle, delete, reset) in a run.
MaxOps == 3

\* The browser tabs (page sessions) that may be open on the same origin.
Sessions == {1, 2}

\* Time zones: New York in winter, UTC, Central Europe in summer.
Offsets == {-5, 0, 2}

\* The instants the clock passes through: Sat 02:00Z, Sat 23:00Z, Sun 12:00Z
\* (1970-01-03 was a Saturday).
Clock == <<50, 71, 84>>

\* What Math.random().toString(36).slice(2, 9) may return, prefixed.
Ids == {"h_a", "h_b"}

\* What #newHabitName may hold after trim().
Names == {"", "Read"}

\* The day columns a user clicks in.
ClickDays == {0, 6}

\* The instants the pure date helpers are checked on: three weeks of hours.
Instants == (0 - 120) .. 360

\* The calendar days the stats page is asked about (days since 1970-01-01).
QueryDays == (0 - 12) .. 10

\* --------------------------------------------------------- program constants

DAYS == 0 .. 6

\* ------------------------------------------------------------- JS values

Str(s) == [t |-> "str", v |-> s]

Bool(b) == [t |-> "bool", v |-> b]

\* A number, by its decimal text.
Num(s) == [t |-> "num", v |-> s]

Null == [t |-> "null", v |-> "null"]

Undefined == [t |-> "undefined", v |-> "undefined"]

Arr(es) == [t |-> "arr", v |-> es]

\* ps: the properties, a sequence of <<key, value>>.
Obj(ps) == [t |-> "obj", v |-> ps]

\* ToBoolean
Truthy(x) ==
  CASE x.t = "undefined" -> FALSE
    [] x.t = "null" -> FALSE
    [] x.t = "bool" -> x.v
    [] x.t = "num" -> x.v # "0"
    [] x.t = "str" -> x.v # ""
    [] OTHER -> TRUE

\* x == null (null or undefined): what ??= and ?. test.
Nullish(x) == x.t \in {"null", "undefined"}

\* String(n) for a day index: the property key of a number.
ToKey(n) == <<"0", "1", "2", "3", "4", "5", "6">>[n + 1]

\* An integer-like key: the engine lists these first, in ascending order.
IsIndexKey(k) == \E n \in DAYS : ToKey(n) = k

KeyNum(k) == CHOOSE n \in DAYS : ToKey(n) = k

HasKey(o, k) == o.t = "obj" /\ \E i \in 1 .. Len(o.v) : o.v[i][1] = k

\* o[k]; undefined when o has no such own property (o is not null or undefined).
GetProp(o, k) ==
  IF HasKey(o, k)
  THEN o.v[CHOOSE i \in 1 .. Len(o.v) : o.v[i][1] = k][2]
  ELSE Undefined

\* o[k] = x on an object: an existing property keeps its place, an
\* integer-like key goes among the integer-like keys, any other key goes last.
SetProp(o, k, x) ==
  IF HasKey(o, k)
  THEN Obj([i \in 1 .. Len(o.v) |-> IF o.v[i][1] = k THEN <<k, x>> ELSE o.v[i]])
  ELSE IF IsIndexKey(k)
  THEN LET n == Cardinality({i \in 1 .. Len(o.v) :
                               IsIndexKey(o.v[i][1]) /\ KeyNum(o.v[i][1]) < KeyNum(k)})
       IN Obj(SubSeq(o.v, 1, n) \o <<(<<k, x>>)>> \o SubSeq(o.v, n + 1, Len(o.v)))
  ELSE Obj(Append(o.v, <<k, x>>))

\* delete o[k] on an object.
DeleteProp(o, k) ==
  Obj(SelectSeq(o.v, LAMBDA p : p[1] # k))

\* { habits: [], checks: {} }
EmptyDoc == Obj(<< <<"habits", Arr(<<>>)>>, <<"checks", Obj(<<>>)>> >>)

\* ------------------------------------------------------------------ JSON

\* A token of JSON text: punctuation "p", a string "s", a number "n",
\* or one of the literals true, false, null "lit".
Tok(k, s) == [k |-> k, s |-> s]

P(s) == Tok("p", s)

RECURSIVE Stringify(_)
RECURSIVE JoinElems(_, _)
RECURSIVE JoinMembers(_, _)

\* JSON.stringify(x), x not undefined.
Stringify(x) ==
  CASE x.t = "str" -> <<Tok("s", x.v)>>
    [] x.t = "num" -> <<Tok("n", x.v)>>
    [] x.t = "bool" -> <<Tok("lit", IF x.v THEN "true" ELSE "false")>>
    [] x.t = "arr" -> <<P("[")>> \o JoinElems(x.v, 1) \o <<P("]")>>
    [] x.t = "obj" ->
         <<P("{")>>
           \o JoinMembers(SelectSeq(x.v, LAMBDA p : p[2].t # "undefined"), 1)
           \o <<P("}")>>
    [] OTHER -> <<Tok("lit", "null")>>

\* The elements from the i-th on, separated by commas; undefined becomes null.
JoinElems(es, i) ==
  IF i > Len(es) THEN <<>>
  ELSE (IF i > 1 THEN <<P(",")>> ELSE <<>>) \o Stringify(es[i]) \o JoinElems(es, i + 1)

\* The members from the i-th on, separated by commas.
JoinMembers(ps, i) ==
  IF i > Len(ps) THEN <<>>
  ELSE (IF i > 1 THEN <<P(",")>> ELSE <<>>)
         \o <<Tok("s", ps[i][1]), P(":")>> \o Stringify(ps[i][2])
         \o JoinMembers(ps, i + 1)

\* A parse that threw SyntaxError.
SyntaxError == [ok |-> FALSE, val |-> Null, next |-> 0]

Parsed(x, next) == [ok |-> TRUE, val |-> x, next |-> next]

RECURSIVE ParseValue(_, _)
RECURSIVE ParseElems(_, _, _)
RECURSIVE ParseMembers(_, _, _)

\* The value that starts at token i, and the place after it.
ParseValue(ts, i) ==
  IF i > Len(ts) THEN SyntaxError
  ELSE LET tk == ts[i] IN
    CASE tk.k = "s" -> Parsed(Str(tk.s), i + 1)
      [] tk.k = "n" -> Parsed(Num(tk.s), i + 1)
      [] tk.k = "lit" ->
           Parsed(IF tk.s = "null" THEN Null ELSE Bool(tk.s = "true"), i + 1)
      [] tk = P("[") ->
           IF i < Len(ts) /\ ts[i + 1] = P("]")
           THEN Parsed(Arr(<<>>), i + 2)
           ELSE ParseElems(ts, i + 1, <<>>)
      [] tk = P("{") ->
           IF i < Len(ts) /\ ts[i + 1] = P("}")
           THEN Parsed(Obj(<<>>), i + 2)
           ELSE ParseMembers(ts, i + 1, Obj(<<>>))
      [] OTHER -> SyntaxError

\* The elements of an array from token i on, acc being those read so far.
ParseElems(ts, i, acc) ==
  LET r == ParseValue(ts, i) IN
  IF ~r.ok \/ r.next > Len(ts) THEN SyntaxError
  ELSE IF ts[r.next] = P(",") THEN ParseElems(ts, r.next + 1, Append(acc, r.val))
  ELSE IF ts[r.next] = P("]") THEN Parsed(Arr(Append(acc, r.val)), r.next + 1)
  ELSE SyntaxError

\* The members of an object from token i on, acc being the object so far.
ParseMembers(ts, i, acc) ==
  IF i + 1 > Len(ts) \/ ts[i].k # "s" \/ ts[i + 1] # P(":") THEN SyntaxError
  ELSE LET r == ParseValue(ts, i + 2) IN
    IF ~r.ok \/ r.next > Len(ts) THEN SyntaxError
    ELSE IF ts[r.next] = P(",")
    THEN ParseMembers(ts, r.next + 1, SetProp(acc, ts[i].s, r.val))
    ELSE IF ts[r.next] = P("}")
    THEN Parsed(SetProp(acc, ts[i].s, r.val), r.next + 1)
    ELSE SyntaxError

\* JSON.parse(text): the whole text is one value, or SyntaxError.
JSONparse(ts) ==
  LET r == ParseValue(ts, 1) IN
  IF r.ok /\ r.next = Len(ts) + 1 THEN r ELSE SyntaxError

\* --------------------------------------------------------------- storage

\* localStorage without the key.
Absent == [present |-> FALSE, text |-> <<>>]

\* localStorage with text under the key.
Stored(ts) == [present |-> TRUE, text |-> ts]

\* load(): JSON.parse(null) parses the text "null".
load(slot) ==
  LET r == JSONparse(IF slot.present THEN slot.text ELSE <<Tok("lit", "null")>>) IN
  IF ~r.ok THEN EmptyDoc
  ELSE IF Truthy(r.val) THEN r.val
  ELSE EmptyDoc

\* A save() that writes the habits and forgets the checks:
\* JSON.stringify(state.habits).
saveHabitsOnly(st) == Stored(Stringify(GetProp(st, "habits")))

\* save(state): what localStorage holds under the key afterwards.
save(st) == Stored(Stringify(st))

\* ----------------------------------------------------------------- dates

\* "YYYY-MM-DD" of the days 1969-12-11 .. 1970-01-25 (day -21 .. day 24).
IsoDates ==
  << "1969-12-11", "1969-12-12", "1969-12-13", "1969-12-14", "1969-12-15", "1969-12-16",
     "1969-12-17", "1969-12-18", "1969-12-19", "1969-12-20", "1969-12-21", "1969-12-22",
     "1969-12-23", "1969-12-24", "1969-12-25", "1969-12-26", "1969-12-27", "1969-12-28",
     "1969-12-29", "1969-12-30", "1969-12-31", "1970-01-01", "1970-01-02", "1970-01-03",
     "1970-01-04", "1970-01-05", "1970-01-06", "1970-01-07", "1970-01-08", "1970-01-09",
     "1970-01-10", "1970-01-11", "1970-01-12", "1970-01-13", "1970-01-14", "1970-01-15",
     "1970-01-16", "1970-01-17", "1970-01-18", "1970-01-19", "1970-01-20", "1970-01-21",
     "1970-01-22", "1970-01-23", "1970-01-24", "1970-01-25" >>

\* The UTC day (days since 1970-01-01) an instant falls on.
UTCDay(t) == t \div 24

\* d.toISOString().slice(0, 10): the UTC date of the instant.
toISODate(t) == IsoDates[UTCDay(t) + 22]

\* new Date("YYYY-MM-DD"): a date-only string is midnight UTC of that day.
parseISODate(str) == 24 * ((CHOOSE i \in 1 .. Len(IsoDates) : IsoDates[i] = str) - 22)

\* The local calendar day an instant falls on, o hours ahead of UTC.
LocalDay(t, o) == (t + o) \div 24

\* d.getDay(): 0 = Sunday .. 6 = Saturday, local time; 1970-01-01 was a Thursday.
getDay(t, o) == (LocalDay(t, o) + 4) % 7

\* new Date(y, m, d): local midnight of a calendar day.
LocalMidnight(day, o) == 24 * day - o

\* d.setDate(d.getDate() + n)
addDays(t, n) == t + 24 * n

\* A startOfWeek() without setHours(0, 0, 0, 0): the Sunday, at the time of
\* day of d.
startOfWeekKeepsTime(d, o) == addDays(d, 0 - getDay(d, o))

\* startOfWeek(d): setDate(getDate() - getDay()), setHours(0, 0, 0, 0).
startOfWeek(d, o) == LocalMidnight(LocalDay(d, o) - getDay(d, o), o)

\* weekKey(d)
weekKey(d, o) == toISODate(startOfWeek(d, o))

\* ------------------------------------------------------------- handlers

\* How a handler call ends: the in-memory state it leaves, whether it
\* reached save(state), whether it threw.
Saved(st) == [st |-> st, saved |-> TRUE, threw |-> FALSE]

Threw(st) == [st |-> st, saved |-> FALSE, threw |-> TRUE]

Returned(st) == [st |-> st, saved |-> FALSE, threw |-> FALSE]

\* uid() and the object literal of the submit handler.
newHabit(id, name, now) ==
  Obj(<< <<"id", Str(id)>>, <<"name", Str(name)>>, <<"createdAt", Str(toISODate(now))>> >>)

\* #addHabitForm submit, name the trimmed input and id what uid() returned.
addHabit(st, name, id, now) ==
  IF name = "" THEN Returned(st)
  ELSE LET habits == GetProp(st, "habits") IN
    IF habits.t # "arr" THEN Threw(st)
    ELSE Saved(SetProp(st, "habits", Arr(Append(habits.v, newHabit(id, name, now)))))

\* #habitBody change on a checkbox with data-habit-id = id, data-day = day,
\* now checked or not, wk the key of the displayed week.
toggleCheck(st, id, day, checked, wk) ==
  LET checks == GetProp(st, "checks") IN
  IF checks.t # "obj" THEN Threw(st)
  ELSE
    LET c1 == IF Nullish(GetProp(checks, id)) THEN SetProp(checks, id, Obj(<<>>)) ELSE checks
        byId == GetProp(c1, id)
    IN
    IF byId.t # "obj" THEN Threw(st)
    ELSE
      LET w1 == IF Nullish(GetProp(byId, wk)) THEN SetProp(byId, wk, Obj(<<>>)) ELSE byId
          byWk == GetProp(w1, wk)
      IN
      IF byWk.t # "obj" THEN Threw(st)
      ELSE Saved(SetProp(st, "checks",
                   SetProp(c1, id,
                     SetProp(w1, wk,
                       SetProp(byWk, ToKey(day), Bool(checked))))))

\* state.habits.filter(h => h.id !== id)
withoutHabit(habits, id) ==
  Arr(SelectSeq(habits.v, LAMBDA h : GetProp(h, "id") # Str(id)))

\* A delete handler without delete state.checks[id].
deleteHabitKeepsChecks(st, id) ==
  LET habits == GetProp(st, "habits") IN
  IF habits.t # "arr" THEN Threw(st)
  ELSE Saved(SetProp(st, "habits", withoutHabit(habits, id)))

\* #habitBody click on a button with data-delete-habit-id = id.
deleteHabit(st, id) ==
  LET habits == GetProp(st, "habits") IN
  IF habits.t # "arr" THEN Threw(st)
  ELSE
    LET st1 == SetProp(st, "habits", withoutHabit(habits, id))
        checks == GetProp(st1, "checks")
    IN
    IF Nullish(checks) THEN Threw(st1)
    ELSE IF checks.t # "obj" THEN Saved(st1)
    ELSE Saved(SetProp(st1, "checks", DeleteProp(checks, id)))

RECURSIVE resetFrom(_, _, _, _)

\* The forEach of the reset handler, from the i-th habit on.
resetFrom(st, habits, i, wk) ==
  IF i > Len(habits) THEN Saved(st)
  ELSE
    LET checks == GetProp(st, "checks")
        id == GetProp(habits[i], "id").v
        byId == GetProp(checks, id)
    IN
    IF Nullish(checks) THEN Threw(st)
    ELSE IF Truthy(byId) /\ byId.t = "obj"
    THEN resetFrom(SetProp(st, "checks", SetProp(checks, id, DeleteProp(byId, wk))),
                   habits, i + 1, wk)
    ELSE resetFrom(st, habits, i + 1, wk)

\* #resetWeekBtn click, wk the key of the displayed week.
resetWeek(st, wk) ==
  LET habits == GetProp(st, "habits") IN
  IF habits.t # "arr" THEN Threw(st) ELSE resetFrom(st, habits.v, 1, wk)

\* ---------------------------------------------------------------- stats

\* state.checks[h.id]?.[wk]?.[dayIdx], as a condition.
isChecked(st, id, wk, dayIdx) ==
  Truthy(GetProp(GetProp(GetProp(GetProp(st, "checks"), id), wk), ToKey(dayIdx)))

\* The habits dayCounts counts in total: created <= date.
countedHabits(st, date) ==
  LET habits == GetProp(st, "habits").v IN
  {i \in 1 .. Len(habits) : parseISODate(GetProp(habits[i], "createdAt").v) <= date}

\* The habits dayCounts counts in done.
doneHabits(st, date, o) ==
  LET habits == GetProp(st, "habits").v IN
  {i \in countedHabits(st, date) :
     isChecked(st, GetProp(habits[i], "id").v, weekKey(date, o), getDay(date, o))}

\* dayCounts(date)
dayCounts(st, date, o) ==
  [done |-> Cardinality(doneHabits(st, date, o)),
   total |-> Cardinality(countedHabits(st, date))]

\* ---------------------------------------------------------------- state

VARIABLES
  off,       \* the browser's time zone: hours local time is ahead of UTC
  now,       \* the current instant
  slot,      \* localStorage under STORAGE_KEY
  state,     \* per session: the in-memory state (undefined: no such tab)
  homeWeek,  \* per session: currentHomeWeekStart
  ops,       \* handler calls so far
  deleted,   \* history, per session and id: "no", never deleted here; "gone",
             \* deleted; "reissued", deleted and then given to a new habit
  writer     \* history: the session whose save() wrote the slot last (0: none)

vars == <<off, now, slot, state, homeWeek, ops, deleted, writer>>

\* The tabs that are open.
Open == {s \in Sessions : state[s] # Undefined}

\* A document an earlier visit left in localStorage: one habit, added on
\* Friday 1970-01-02, checked on that day.
SeedDoc ==
  Obj(<< <<"habits", Arr(<< Obj(<< <<"id", Str("h_a")>>, <<"name", Str("Walk")>>,
                                    <<"createdAt", Str("1970-01-02")>> >>) >>)>>,
         <<"checks", Obj(<< <<"h_a", Obj(<< <<"1969-12-28",
                                              Obj(<< <<"5", Bool(TRUE)>> >>)>> >>)>> >>)>> >>)

\* What localStorage may hold under the key when the page is first opened:
\* nothing, text that is not JSON, JSON that is not a document, a document.
InitSlots ==
  { Absent,
    Stored(<<P("{"), Tok("s", "habits")>>),
    Stored(<<Tok("lit", "null")>>),
    Stored(<<Tok("n", "0")>>),
    Stored(<<Tok("lit", "true")>>),
    Stored(<<Tok("n", "1")>>),
    Stored(<<Tok("s", "x")>>),
    Stored(<<P("["), P("]")>>),
    Stored(<<P("{"), P("}")>>),
    Stored(Stringify(SeedDoc)) }

\* The rows renderHome() draws: one per habit (it throws when state.habits
\* is no array, and then draws none).
rows(st) ==
  LET habits == GetProp(st, "habits") IN
  IF habits.t = "arr" THEN 1 .. Len(habits.v) ELSE {}

\* The id of the row's habit: data-habit-id, data-delete-habit-id.
rowId(st, i) == GetProp(GetProp(st, "habits").v[i], "id").v

\* What a click may leave in a row's checkbox: the opposite of what rows
\* of this habit last showed.  Rows that share an id are not redrawn when
\* one of them is clicked, so the others may show either.
clicked(st, i, wk, day) ==
  IF \E j \in rows(st) : j # i /\ rowId(st, j) = rowId(st, i)
  THEN BOOLEAN
  ELSE {~isChecked(st, rowId(st, i), wk, day)}

\* The script has run in tab 1: state = load(), the cursors.
Init ==
  /\ off \in Offsets
  /\ now = Clock[1]
  /\ slot \in InitSlots
  /\ state = [s \in Sessions |-> IF s = 1 THEN load(slot) ELSE Undefined]
  /\ homeWeek = [s \in Sessions |-> IF s = 1 THEN startOfWeek(now, off) ELSE 0]
  /\ ops = 0
  /\ deleted = [s \in Sessions |-> [id \in Ids |-> "no"]]
  /\ writer = 0

\* The script runs in tab s: state = load(), the cursors.
PageLoad(s) ==
  /\ state' = [state EXCEPT ![s] = load(slot)]
  /\ homeWeek' = [homeWeek EXCEPT ![s] = startOfWeek(now, off)]
  /\ UNCHANGED <<off, now, slot, ops, deleted, writer>>

\* A save() that leaves the slot alone when another tab wrote it last.
HandledFirstWriteWins(s, r) ==
  /\ state' = [state EXCEPT ![s] = r.st]
  /\ slot' = IF r.saved /\ writer \in {0, s} THEN save(r.st) ELSE slot
  /\ writer' = IF r.saved THEN s ELSE writer
  /\ ops' = ops + 1
  /\ UNCHANGED <<off, now, homeWeek>>

\* A handler of tab s ran and ended as r: what it left in memory and,
\* when it reached save(state), in localStorage.
Handled(s, r) ==
  /\ state' = [state EXCEPT ![s] = r.st]
  /\ slot' = IF r.saved THEN save(r.st) ELSE slot
  /\ writer' = IF r.saved THEN s ELSE writer
  /\ ops' = ops + 1
  /\ UNCHANGED <<off, now, homeWeek>>

\* The add form is submitted.
Add(s) ==
  /\ s \in Open
  /\ ops < MaxOps
  /\ Cardinality(rows(state[s])) < MaxHabits
  /\ \E name \in Names, id \in Ids :
       LET r == addHabit(state[s], name, id, now) IN
       /\ Handled(s, r)
       /\ deleted' = IF r.saved /\ deleted[s][id] = "gone"
                     THEN [deleted EXCEPT ![s][id] = "reissued"]
                     ELSE deleted

\* A checkbox of a row is clicked.
Toggle(s) ==
  /\ s \in Open
  /\ ops < MaxOps
  /\ \E i \in rows(state[s]), day \in ClickDays :
       LET wk == weekKey(homeWeek[s], off) IN
       \E checked \in clicked(state[s], i, wk, day) :
         Handled(s, toggleCheck(state[s], rowId(state[s], i), day, checked, wk))
  /\ UNCHANGED deleted

\* The Delete button of a row is clicked.
Delete(s) ==
  /\ s \in Open
  /\ ops < MaxOps
  /\ \E i \in rows(state[s]) :
       /\ Handled(s, deleteHabit(state[s], rowId(state[s], i)))
       /\ deleted' = [deleted EXCEPT ![s][rowId(state[s], i)] = "gone"]

\* The reset button is clicked.
Reset(s) ==
  /\ s \in Open
  /\ ops < MaxOps
  /\ Handled(s, resetWeek(state[s], weekKey(homeWeek[s], off)))
  /\ UNCHANGED deleted

\* #homePrevWeek, here from the week of the first visit only.
HomePrev(s) ==
  /\ s \in Open
  /\ homeWeek[s] = startOfWeek(Clock[1], off)
  /\ homeWeek' = [homeWeek EXCEPT ![s] = addDays(homeWeek[s], 0 - 7)]
  /\ UNCHANGED <<off, now, slot, state, ops, deleted, writer>>

\* #homeNextWeek, here no further than the current week.
HomeNext(s) ==
  /\ s \in Open
  /\ homeWeek[s] < startOfWeek(now, off)
  /\ homeWeek' = [homeWeek EXCEPT ![s] = addDays(homeWeek[s], 7)]
  /\ UNCHANGED <<off, now, slot, state, ops, deleted, writer>>

\* #homeToday
HomeToday(s) ==
  /\ s \in Open
  /\ homeWeek' = [homeWeek EXCEPT ![s] = startOfWeek(now, off)]
  /\ UNCHANGED <<off, now, slot, state, ops, deleted, writer>>

\* Time passes.
Tick ==
  /\ \E i \in 1 .. Len(Clock) - 1 : now = Clock[i] /\ now' = Clock[i + 1]
  /\ UNCHANGED <<off, slot, state, homeWeek, ops, deleted, writer>>

\* One tab.
NextSingle ==
  \/ PageLoad(1)
  \/ Add(1)
  \/ Toggle(1)
  \/ Delete(1)
  \/ Reset(1)
  \/ HomePrev(1)
  \/ HomeNext(1)
  \/ HomeToday(1)
  \/ Tick

SpecSingle == Init /\ [][NextSingle]_vars

\* Two tabs on the same localStorage, used within the same hour, each
\* showing the current week.
NextTabs ==
  \/ \E s \in Sessions : PageLoad(s)
  \/ \E s \in Sessions : Add(s)
  \/ \E s \in Sessions : Toggle(s)
  \/ \E s \in Sessions : Delete(s)
  \/ \E s \in Sessions : Reset(s)

SpecTabs == Init /\ [][NextTabs]_vars

\* A change event from a checkbox whose data-habit-id is any id at all
\* (the handler is delegated on #habitBody and looks at the element only).
RawChange(s) ==
  /\ s \in Open
  /\ ops < MaxOps
  /\ \E id \in Ids, day \in ClickDays, checked \in BOOLEAN :
       Handled(s, toggleCheck(state[s], id, day, checked, weekKey(homeWeek[s], off)))
  /\ UNCHANGED deleted

\* A click on a button whose data-delete-habit-id is any id at all.
RawClick(s) ==
  /\ s \in Open
  /\ ops < MaxOps
  /\ \E id \in Ids :
       /\ Handled(s, deleteHabit(state[s], id))
       /\ deleted' = [deleted EXCEPT ![s][id] = "gone"]

\* One tab whose #habitBody receives events from elements it did not draw.
NextRaw ==
  \/ PageLoad(1)
  \/ Add(1)
  \/ RawChange(1)
  \/ RawClick(1)
  \/ Reset(1)

SpecRaw == Init /\ [][NextRaw]_vars

\* The date helpers at every hour of three weeks: the page is opened on an
\* empty localStorage at the first hour, and the clock runs.
InitDates ==
  /\ off \in Offsets
  /\ now = 0 - 120
  /\ slot = Absent
  /\ state = [s \in Sessions |-> IF s = 1 THEN load(slot) ELSE Undefined]
  /\ homeWeek = [s \in Sessions |-> IF s = 1 THEN startOfWeek(now, off) ELSE 0]
  /\ ops = 0
  /\ deleted = [s \in Sessions |-> [id \in Ids |-> "no"]]
  /\ writer = 0

\* An hour passes.
Hour ==
  /\ now + 1 \in Instants
  /\ now' = now + 1
  /\ UNCHANGED <<off, slot, state, homeWeek, ops, deleted, writer>>

NextDates ==
  \/ Hour
  \/ HomeToday(1)

SpecDates == InitDates /\ [][NextDates]_vars

\* --------------------------------------------------------------- claims

\* A value of Document shape: an object with a habits array and a checks object.
IsDocument(x) == GetProp(x, "habits").t = "arr" /\ GetProp(x, "checks").t = "obj"

\* The slot holds text that parses to a value of Document shape.
HoldsDocument(sl) ==
  sl.present /\ JSONparse(sl.text).ok /\ IsDocument(JSONparse(sl.text).val)

\* The ids of the habits of a document.
HabitIds(st) == {rowId(st, i) : i \in rows(st)}

\* The calendar day (days since 1970-01-01) a habit's createdAt names.
CreatedDay(st, i) ==
  (CHOOSE k \in 1 .. Len(IsoDates) :
     IsoDates[k] = GetProp(GetProp(st, "habits").v[i], "createdAt").v) - 22

\* 1970-01-04 (day 3) was a Sunday.
Sunday(day) == (day - 3) % 7 = 0

\* The Sunday that starts the local calendar week of an instant.
SundayOf(d, o) ==
  CHOOSE S \in (0 - 21) .. 24 :
    Sunday(S) /\ S <= LocalDay(d, o) /\ LocalDay(d, o) <= S + 6

\* Two instants fall in the same Sunday-to-Saturday local calendar week.
SameWeek(d1, d2, o) ==
  \E S \in (0 - 21) .. 24 :
    /\ Sunday(S)
    /\ S <= LocalDay(d1, o) /\ LocalDay(d1, o) <= S + 6
    /\ S <= LocalDay(d2, o) /\ LocalDay(d2, o) <= S + 6

\* C1: dayCounts(d).total is the number of habits whose createdAt calendar
\* date is <= d, and a habit just added is counted on the calendar date the
\* add ran and on every later date, and on no earlier date.
C1_TotalCountsFromCreationDay ==
  [][\A name \in Names \ {""}, id \in Ids :
       LET r == addHabit(state[1], name, id, now) IN
       (1 \in Open /\ r.saved /\ Handled(1, r)) =>
         \A D \in QueryDays :
           /\ dayCounts(r.st, LocalMidnight(D, off), off).total
                = Cardinality({i \in rows(r.st) : CreatedDay(r.st, i) <= D})
           /\ (Cardinality(rows(r.st)) \in countedHabits(r.st, LocalMidnight(D, off)))
                <=> (LocalDay(now, off) <= D)]_vars

\* C2: load() always returns a value of Document shape, and the empty
\* document whenever the slot is absent, does not parse, or parses to a
\* value that is not of Document shape.
C2_LoadFallsBackToEmpty ==
  /\ IsDocument(load(slot))
  /\ ~HoldsDocument(slot) => load(slot) = EmptyDoc

\* C3: in a single session the slot always loads to the in-memory state,
\* and it holds that state's serialization from the first completed
\* mutation on (before it, the state is the empty document load() fell
\* back to on what the first visit found).
C3_SlotHoldsState ==
  /\ load(slot) = state[1]
  /\ slot # save(state[1]) => (state[1] = EmptyDoc /\ slot \in InitSlots /\ writer = 0)

\* C3's case: two mutations done, a habit with a check set, and the slot
\* holds exactly the serialized state.
C3_Witness ==
  /\ ops >= 2
  /\ writer = 1
  /\ slot = save(state[1])
  /\ \E i \in rows(state[1]), D \in QueryDays :
       i \in doneHabits(state[1], LocalMidnight(D, off), off)
  /\ load(slot) = state[1]

\* C4: at every hour, the week key equals that of another instant exactly
\* when the two fall in the same Sunday-to-Saturday local week.
C4_SameKeyIffSameWeek ==
  \A d2 \in Instants :
    (weekKey(now, off) = weekKey(d2, off)) <=> SameWeek(now, d2, off)

\* C4's case: east of UTC, the last hour of a week: an earlier instant has
\* the same key and the next hour has another.
C4_Witness ==
  /\ off = 2
  /\ now + 1 \in Instants
  /\ weekKey(now, off) # weekKey(now + 1, off)
  /\ \E d2 \in Instants : d2 < now - 24 /\ weekKey(d2, off) = weekKey(now, off)

\* C5: the week key is the year-month-day of the Sunday that starts the
\* local calendar week of the date, the calendar day startOfWeek returns,
\* in every time zone.
C5_KeyIsTheSunday ==
  /\ LocalDay(startOfWeek(now, off), off) = SundayOf(now, off)
  /\ weekKey(now, off) = IsoDates[SundayOf(now, off) + 22]

\* What C6 says of a deleted id: checks has no entry under it, and no
\* dayCounts result counts a habit with that id in done or total.
Forgotten(st, id) ==
  /\ ~HasKey(GetProp(st, "checks"), id)
  /\ \A D \in QueryDays :
       /\ \A i \in countedHabits(st, LocalMidnight(D, off)) : rowId(st, i) # id
       /\ \A i \in doneHabits(st, LocalMidnight(D, off), off) : rowId(st, i) # id

\* C6 as stated: from the delete on, in every state, checks has no entry
\* under the deleted id and no dayCounts result counts it.
C6_DeletedNeverReferenced ==
  IsDocument(state[1]) =>
    \A id \in Ids : deleted[1][id] # "no" => Forgotten(state[1], id)

\* C6 as amended: the same, from the delete until an add gives a new habit
\* the same id.
C6_DeletedGoneUntilReissued ==
  IsDocument(state[1]) =>
    \A id \in Ids : deleted[1][id] = "gone" => Forgotten(state[1], id)

\* C6's case: the habit the first visit found, with its checks, has just
\* been deleted, and the deletion is what the slot holds.
C6_Witness ==
  /\ ops = 1
  /\ deleted[1]["h_a"] = "gone"
  /\ writer = 1
  /\ IsDocument(state[1])
  /\ Forgotten(state[1], "h_a")
  /\ load(slot) = state[1]

\* C7: a check-toggle or a delete that names an id no habit has raises no
\* error and leaves the document as it was.
C7_UnknownIdIsNoOp ==
  [][\A id \in Ids, day \in ClickDays, checked \in BOOLEAN :
       LET st == state[1]
           t == toggleCheck(st, id, day, checked, weekKey(homeWeek[1], off))
           d == deleteHabit(st, id)
       IN
       (1 \in Open /\ IsDocument(st) /\ id \notin HabitIds(st)) =>
         /\ Handled(1, t) => (~t.threw /\ state'[1] = st)
         /\ Handled(1, d) => (~d.threw /\ state'[1] = st)]_vars

\* C8: no two habits of the document have the same id.
C8_IdsDistinct ==
  IsDocument(state[1]) =>
    \A i, j \in rows(state[1]) : i # j => rowId(state[1], i) # rowId(state[1], j)

\* C9: the store holds exactly the document of the tab that saved last,
\* whatever the other tab did before.
C9_LastSaveWins ==
  writer \in Sessions =>
    /\ slot = save(state[writer])
    /\ load(slot) = state[writer]

\* C9's case: tab 1 added a habit and saved, then tab 2, loaded before
\* that save, added another and saved: the store holds tab 2's habit and
\* not tab 1's.
C9_Witness ==
  /\ writer = 2
  /\ ops = 2
  /\ IsDocument(state[1]) /\ IsDocument(state[2])
  /\ \E i \in rows(state[1]) :
       /\ rowId(state[1], i) = "h_a"
       /\ GetProp(GetProp(state[1], "habits").v[i], "name") = Str("Read")
  /\ HabitIds(state[2]) = {"h_b"}
  /\ HabitIds(load(slot)) = {"h_b"}

\* C10: dayCounts(d).done is the number of habits active on d (createdAt
\* <= d) whose entry at (id, weekKey(d), day index of d) is true; and once
\* the box of a habit for day index i of the displayed week W is toggled
\* on, the habit is in done for the date W + i days whenever it is active
\* then, and the toggle changes done for no other date.
C10_ToggleOnCountsThatDay ==
  [][\A i \in rows(state[1]), day \in ClickDays :
       LET st == state[1]
           r == toggleCheck(st, rowId(st, i), day, TRUE, weekKey(homeWeek[1], off))
           target == LocalDay(homeWeek[1], off) + day
       IN
       (1 \in Open /\ IsDocument(st) /\ Handled(1, r)) =>
         \A D \in QueryDays :
           LET date == LocalMidnight(D, off) IN
           /\ dayCounts(r.st, date, off).done
                = Cardinality({j \in rows(r.st) :
                     /\ CreatedDay(r.st, j) <= D
                     /\ isChecked(r.st, rowId(r.st, j), weekKey(date, off), getDay(date, off))})
           /\ D = target => (i \in doneHabits(r.st, date, off) <=> CreatedDay(st, i) <= D)
           /\ D # target => (i \in doneHabits(r.st, date, off) <=> i \in doneHabits(st, date, off))]_vars

====
